---- MODULE Spec2Model ----
(***************************************************************************)
(* The LearnFlow code sandbox: execute_sandboxed (the supervisor),         *)
(* _execute_code (the worker process), the multiprocessing.Queue between   *)
(* them, and the POST /execute gateway in front of them.                   *)
(*                                                                         *)
(* Time is counted in whole seconds.  A second passes (Tick) only while    *)
(* the supervisor waits in process.join and the worker is starting up,     *)
(* running the snippet, or blocked flushing its queue; the straight-line   *)
(* statements of _execute_code finish within the second they start in.     *)
(* The instant at which a due SIGALRM is delivered is free within that     *)
(* second, so it interleaves with the statements that follow the snippet.  *)
(* time.time() is taken to be monotone.                                    *)
(***************************************************************************)
EXTENDS Integers, Sequences, FiniteSets

VARIABLES
    code,            \* the submitted snippet, by what it does when run
    timeout,         \* request.timeout / execute_sandboxed(timeout)
    memory_mb,       \* request.memory_mb / execute_sandboxed(memory_mb)
    platform,        \* what the host lets the worker do
    caller,          \* "gateway" (POST /execute) or "direct" (execute_sandboxed)
    spc,             \* position of the supervisor / gateway
    supWait,         \* seconds left of process.join(timeout + 2)
    ret,             \* the result handed to the caller
    wpc,             \* position of the worker in _execute_code
    alive,           \* process.is_alive()
    exc,             \* the exception being propagated in the worker
    alarmArmed,      \* signal.alarm pending
    alarmRem,        \* seconds until SIGALRM
    cpu,             \* CPU seconds used by the worker
    elapsed,         \* time.time() - start_time, in seconds
    stdout_capture,  \* contents of the StringIO standing in for sys.stdout
    sys_stdout,      \* what sys.stdout is bound to in the worker
    rlimits,         \* the resource limits in force in the worker
    memExhausted,    \* the address space is full (the snippet holds the memory)
    buffer,          \* Queue._buffer: results put but not yet written
    feeder,          \* the queue's feeder thread
    sent,            \* units of Head(buffer) already written to the pipe
    pipe,            \* the pipe under the queue, as a sequence of units
    hist,            \* what has happened so far (history, read by the properties)
    children,        \* live processes forked by the snippet
    first,           \* success and error_type of the earlier, identical call
    mpc,             \* progress agent: position
    margs,           \* progress agent: the arguments of calculate_mastery
    mval,            \* progress agent: the mastery value
    mlevel,          \* progress agent: the level get_mastery_level returned
    fs,              \* two concurrent calls: the files under /tmp
    iprog,           \* two concurrent calls: each snippet, as a list of file operations
    ipc,             \* two concurrent calls: each worker's position in its snippet
    iout,            \* two concurrent calls: each worker's captured stdout
    heap,            \* environments: the objects of each process (0: the supervisor)
    epc,             \* environments: each worker's position
    eops,            \* environments: statements the snippet of each worker has run
    eruns            \* environments: executions started so far

inputs == <<code, timeout, memory_mb, platform, caller>>
supv   == <<spc, supWait, ret>>
timers == <<alarmArmed, alarmRem, cpu, elapsed>>
wctx   == <<stdout_capture, sys_stdout, rlimits, memExhausted>>
queue  == <<buffer, feeder, sent, pipe>>
mastery == <<mpc, margs, mval, mlevel>>
pair   == <<fs, iprog, ipc, iout>>
envs   == <<heap, epc, eops, eruns>>
beside == <<first, mpc, margs, mval, mlevel, fs, iprog, ipc, iout,
            heap, epc, eops, eruns>>
vars   == <<code, timeout, memory_mb, platform, caller, spc, supWait, ret,
            wpc, alive, exc, alarmArmed, alarmRem, cpu, elapsed,
            stdout_capture, sys_stdout, rlimits, memExhausted,
            buffer, feeder, sent, pipe, hist, children, first,
            mpc, margs, mval, mlevel, fs, iprog, ipc, iout,
            heap, epc, eops, eruns>>

----------------------------------------------------------------------------
(* Bounds of the model *)

MaxTimeout == 2
PipeCapacity == 2

(* Constants of the program *)

StartupGrace == 2
CpuSoftExtra == 1
CpuHardExtra == 2
MinTimeout == 1
DefaultMemoryMb == 50
MiB == 1024 * 1024

Timeouts == MinTimeout..MaxTimeout
MemoryLimits == {DefaultMemoryMb}

None == "None"

----------------------------------------------------------------------------
(* Results *)

Text(tag, name, detail, num) ==
    [tag |-> tag, name |-> name, detail |-> detail, num |-> num]

NoText == Text("", "", "", 0)

Result(out, err, ok, et, ms) ==
    [stdout |-> out, stderr |-> err, success |-> ok, error_type |-> et,
     execution_time_ms |-> ms]

NoResult == Result("", NoText, FALSE, "unset", 0)

Ms(seconds) == seconds * 1000

(* the size of a pickled result on the pipe: one unit, or more than the pipe holds *)
Units(r) == IF r.stdout = "TBIG" THEN PipeCapacity + 1 ELSE 1

----------------------------------------------------------------------------
(* The policy tables.  A module name is the sequence of its dotted parts. *)

BLOCKED_MODULES ==
    { <<"subprocess">>, <<"os", "system">>, <<"shutil">>, <<"socket">>,
      <<"http">>, <<"urllib">>, <<"requests">>, <<"ftplib">>, <<"smtplib">>,
      <<"telnetlib">>, <<"xmlrpc">>, <<"ctypes">>, <<"importlib">>,
      <<"code">>, <<"codeop">>, <<"compile">>, <<"compileall">>,
      <<"py_compile">>, <<"zipimport">>, <<"pkgutil">>, <<"ensurepip">>,
      <<"pip">>, <<"venv">>, <<"webbrowser">>, <<"antigravity">>,
      <<"turtle">>, <<"tkinter">>, <<"multiprocessing">>, <<"threading">>,
      <<"signal">>, <<"pathlib">> }

(* name.startswith(m + ".") *)
StartsWithDot(name, m) ==
    /\ Len(name) > Len(m)
    /\ SubSeq(name, 1, Len(m)) = m

(* the test of safe_import *)
ImportDenied(name) ==
    \/ name \in BLOCKED_MODULES
    \/ \E m \in BLOCKED_MODULES : StartsWithDot(name, m)

(* executor.py 36-39 *)
BLOCKED_BUILTINS ==
    {"exec", "eval", "compile", "__import__", "open", "breakpoint", "exit",
     "quit"}

(* names of the builtins module that start with an underscore *)
Underscored == {"__import__", "__build_class__", "__name__"}

(* executor.py 42-67, 104-115: what a name of the builtins module is bound  *)
(* to in the globals the snippet runs with: _create_safe_builtins leaves    *)
(* out the underscored and the blocked names, then open is set to safe_open *)
(* and __import__ to safe_import                                            *)
SafeBuiltin(name) ==
    IF name = "__import__" THEN "safe_import"
    ELSE IF name = "open" THEN "safe_open"
    ELSE IF name \in Underscored /\ name # "__name__" THEN "missing"
    ELSE IF name \in BLOCKED_BUILTINS THEN "missing"
    ELSE "builtin"

(* main.py 52-53.  The text of a snippet is the sequence of its words, and  *)
(* a pattern is in a text when its words stand there side by side.         *)
dangerous ==
    { <<"import", "os">>, <<"import", "subprocess">>, <<"import", "socket">>,
      <<"import", "shutil">>, <<"__import__">>, <<"eval(">>, <<"exec(">>,
      <<"compile(">> }

(* str.lower(), on the words that occur *)
LowerWord(w) ==
    CASE w = "Import" -> "import"
      [] w = "OS" -> "os"
      [] w = "Eval(" -> "eval("
      [] OTHER -> w

Lower(t) == [i \in 1..Len(t) |-> LowerWord(t[i])]

(* p in t *)
Contains(t, p) ==
    \E i \in 0..(Len(t) - Len(p)) : SubSeq(t, i + 1, i + Len(p)) = p

(* Flagged, comparing the text as it was typed *)
Flagged_asTyped(t) == \E p \in dangerous : Contains(t, p)

(* main.py 54-56: pattern.lower() in code_lower, for some pattern *)
Flagged(t) == \E p \in dangerous : Contains(Lower(t), Lower(p))

----------------------------------------------------------------------------
(* Exceptions *)

Exc(cls, msg, lineno) == [cls |-> cls, msg |-> msg, lineno |-> lineno]

NoExc == Exc("", "", 0)

(* classes that derive from BaseException but not from Exception *)
BaseOnly == {"SystemExit", "KeyboardInterrupt", "GeneratorExit"}

IsException(e) == e.cls # "" /\ e.cls \notin BaseOnly

(* the except clauses of the inner try, in their order *)
HandlerFor(e) ==
    IF e.cls = "SyntaxError" THEN "h_syntax"
    ELSE IF e.cls = "TimeoutError" THEN "h_timeout"
    ELSE IF e.cls = "MemoryError" THEN "h_memory"
    ELSE IF IsException(e) THEN "h_exception"
    ELSE "finally"

(* what timeout_handler raises *)
AlarmError == Exc("TimeoutError", "Code execution timed out", 0)

(* what compile raises on malformed source *)
CompileError == Exc("SyntaxError", "invalid syntax", 1)

(* what safe_import raises *)
ImportRefused == Exc("ImportError", "Module is not allowed in the sandbox", 0)

(* what the allocator raises at the RLIMIT_AS ceiling *)
AllocError == Exc("MemoryError", "", 0)

(* what Queue.put raises when its feeder thread cannot be started *)
ThreadError == Exc("RuntimeError", "can't start new thread", 0)

(* what setrlimit raises when the host refuses a limit *)
LimitError == Exc("ValueError", "not allowed to raise maximum limit", 0)

(* what process.start raises when fork fails *)
ForkError == Exc("OSError", "Resource temporarily unavailable", 0)

(* what the lookup of a name that is not in the snippet's globals raises *)
NameNotDefined == Exc("NameError", "name is not defined", 0)

(* what os.fork raises in the snippet when RLIMIT_NPROC binds *)
SnippetForkError ==
    Exc("BlockingIOError", "Resource temporarily unavailable", 0)

----------------------------------------------------------------------------
(* The inputs *)

RaisedClasses ==
    {"ZeroDivisionError", "SyntaxError", "TimeoutError", "MemoryError",
     "SystemExit"}

ImportNames == { <<"subprocess">>, <<"http", "client">>, <<"os">>, <<"math">> }

(* the texts submitted: one free of every pattern, one holding a pattern in *)
(* other letter case, one holding a pattern as typed                        *)
CodeTexts ==
    { <<"from", "os", "import", "fork">>,
      <<"print(", "Import", "OS", ")">>,
      <<"x", "=", "eval(", "y", ")">> }

Snippet(compiles, out, ending, raises, module, usesCpu, swallows, text) ==
    [compiles |-> compiles, out |-> out, ending |-> ending, raises |-> raises,
     module |-> module, cpu |-> usesCpu, swallows |-> swallows,
     text |-> text]

(* A snippet is given by what it does: whether it compiles; the text it     *)
(* prints ("" none, "T" short, "TBIG" longer than the pipe's buffer); how   *)
(* it ends; whether it burns CPU or sleeps while it runs; whether it        *)
(* catches the TimeoutError raised inside it; and its text, which is all    *)
(* the gateway looks at.  "fork_loop" forks a child that sleeps, then       *)
(* loops; "dunder_import" calls __import__ on the module; "builtin" calls   *)
(* the builtin whose name stands in the module field.                       *)
Snippets ==
    LET Run(ending, raises, module) ==
            { Snippet(TRUE, o, ending, raises, module, c, s, t) :
                o \in {"", "T", "TBIG"}, c \in BOOLEAN, s \in BOOLEAN,
                t \in CodeTexts }
    IN  { Snippet(FALSE, "", "return", "", <<>>, FALSE, FALSE, t) :
            t \in CodeTexts }
        \cup Run("return", "", <<>>)
        \cup UNION { Run("raise", x, <<>>) : x \in RaisedClasses }
        \cup UNION { Run("import", "", m) : m \in ImportNames }
        \cup Run("import_caught", "", <<"subprocess">>)
        \cup Run("alloc", "", <<>>)
        \cup Run("alloc_hold", "", <<>>)
        \cup Run("os_exit", "", <<>>)
        \cup Run("loop", "", <<>>)
        \cup Run("fork_loop", "", <<>>)
        \cup Run("dunder_import", "", <<"os">>)
        \cup Run("builtin", "", <<"eval">>)

(* privileged: the worker runs as root or with CAP_SYS_RESOURCE, which      *)
(* RLIMIT_NPROC does not bind; rlimitOK: the host accepts the three limits; *)
(* canFork: process.start succeeds.                                         *)
Platforms == [privileged : BOOLEAN, rlimitOK : BOOLEAN, canFork : BOOLEAN]

NoLimits == [as |-> -1, cpu_soft |-> -1, cpu_hard |-> -1, nproc |-> -1]

----------------------------------------------------------------------------
(* The progress agent: the arguments of calculate_mastery.  A Python int   *)
(* has no width: Num(n) is an int that converts to a float, Beyond(sign)   *)
(* one of magnitude 2^1024 or more, which does not.                        *)

MaxCount == 11
MaxScore == 101
MaxMastery == 101

ScoreCap == 100
BeginnerMax == 40
LearningMax == 70
ProficientMax == 90

Num(n) == [n |-> n, huge |-> 0]

Beyond(sign) == [n |-> 0, huge |-> sign]

MasteryArgs(e, q, c, s) ==
    [exercises_done |-> e, quiz_score |-> q, code_quality |-> c, streak |-> s]

NoArgs == MasteryArgs(Num(0), Num(0), Num(0), Num(0))

Counts == { Num(n) : n \in -1..MaxCount }

Scores == { Num(n) : n \in -1..MaxScore }

Qualities == { Num(n) : n \in {-1, 0, 37, 50, ScoreCap, MaxScore} }

ArgSets ==
    { MasteryArgs(e, q, c, s) :
        e \in Counts, q \in Scores, c \in Qualities, s \in Counts }
    \cup { MasteryArgs(Beyond(sg), Num(0), Num(0), Num(0)) : sg \in {-1, 1} }
    \cup { MasteryArgs(Num(0), Beyond(sg), Num(0), Num(0)) : sg \in {-1, 1} }
    \cup { MasteryArgs(Num(0), Num(0), Beyond(sg), Num(0)) : sg \in {-1, 1} }
    \cup { MasteryArgs(Num(0), Num(0), Num(0), Beyond(sg)) : sg \in {-1, 1} }

----------------------------------------------------------------------------
(* Two concurrent calls: the files their snippets open.  A path is the     *)
(* sequence of its components, as the snippet wrote it; a location is a    *)
(* path with its ".." components resolved, as the operating system does    *)
(* when the file is opened.  A file holds nothing (-1), what the system    *)
(* put there (0), or what caller k wrote (k).                              *)

MaxOps == 2

Callers == {1, 2}

Paths ==
    { <<"tmp", "a">>, <<"tmpx", "a">>, <<"tmp", "..", "etc", "passwd">>,
      <<"etc", "passwd">> }

RECURSIVE Normal(_, _)
Normal(path, done) ==
    IF path = <<>> THEN done
    ELSE IF Head(path) = ".."
         THEN Normal(Tail(path),
                     IF done = <<>> THEN done
                     ELSE SubSeq(done, 1, Len(done) - 1))
         ELSE Normal(Tail(path), Append(done, Head(path)))

(* the location a path denotes *)
Resolve(path) == Normal(path, <<>>)

Locations == { Resolve(p) : p \in Paths }

FileOps == [op : {"write", "read"}, path : Paths]

Programs == UNION { [1..n -> FileOps] : n \in 1..MaxOps }

NoPrograms == [k \in Callers |-> <<>>]

NoFiles == [l \in Locations |-> IF l[1] = "etc" THEN 0 ELSE -1]

----------------------------------------------------------------------------
(* Environments.  Each process has its own objects: the builtins module,   *)
(* the policy tables of executor.py and, in a worker, the globals the      *)
(* snippet runs with.  A name is bound to the interpreter's builtin, to    *)
(* one of the sandbox's wrappers, to something a snippet put there, or to  *)
(* nothing.                                                                *)

MaxRuns == 3
MaxEnvOps == 2

EnvNames == {"print", "__import__", "x"}

Builtins0 == [n \in EnvNames |-> IF n = "x" THEN "absent" ELSE "builtin"]

NoGlobals == [n \in EnvNames |-> "absent"]

Heap0 == [builtins |-> Builtins0, tables |-> "original", globals |-> NoGlobals]

(* executor.py 42-67, 104-115: the dict built from the builtins module *)
SafeGlobals(b) ==
    [n \in EnvNames |->
        CASE SafeBuiltin(n) = "safe_import" -> "safe_import"
          [] SafeBuiltin(n) = "safe_open" -> "safe_open"
          [] SafeBuiltin(n) = "missing" -> "absent"
          [] OTHER -> b[n]]

(* _execute_code run in the supervisor's own process *)
Space_inProcess(k) == 0

(* executor.py 194-198: _execute_code runs in a process of its own *)
Space(k) == k

----------------------------------------------------------------------------
(* no earlier call *)
NoFirst == [success |-> FALSE, error_type |-> "unset"]

Hist0 ==
    [stmtRun |-> FALSE, compileFailed |-> FALSE, execReturned |-> FALSE,
     alarmFired |-> FALSE, swallowed |-> FALSE, raised |-> "",
     memError |-> FALSE, importDenied |-> FALSE, loaded |-> FALSE,
     puts |-> 0, extKilled |-> FALSE, supKilled |-> FALSE,
     xcpuKilled |-> FALSE, spawned |-> FALSE, firedInRun |-> FALSE,
     waitAtEnd |-> -1, reported |-> NoResult, putWait |-> -1,
     written |-> FALSE, forked |-> FALSE, called |-> FALSE]

InitSandbox ==
    /\ code \in Snippets
    /\ timeout \in Timeouts
    /\ memory_mb \in MemoryLimits
    /\ platform \in Platforms
    /\ caller \in {"gateway", "direct"}
    /\ spc = IF caller = "gateway" THEN "request" ELSE "start"
    /\ supWait = 0
    /\ ret = NoResult
    /\ wpc = "init"
    /\ alive = FALSE
    /\ exc = NoExc
    /\ alarmArmed = FALSE
    /\ alarmRem = 0
    /\ cpu = 0
    /\ elapsed = 0
    /\ stdout_capture = ""
    /\ sys_stdout = "original"
    /\ rlimits = NoLimits
    /\ memExhausted = FALSE
    /\ buffer = <<>>
    /\ feeder = "none"
    /\ sent = 0
    /\ pipe = <<>>
    /\ hist = Hist0
    /\ children = 0

(* the progress agent not in use *)
IdleAgent ==
    /\ mpc = "idle"
    /\ margs = NoArgs
    /\ mval = 0
    /\ mlevel = ""

(* no second call beside the first *)
IdlePair ==
    /\ fs = NoFiles
    /\ iprog = NoPrograms
    /\ ipc = [k \in Callers |-> 0]
    /\ iout = [k \in Callers |-> {}]

(* no worker with an environment *)
IdleEnv ==
    /\ heap = [p \in {0} \cup Callers |-> Heap0]
    /\ epc = [k \in Callers |-> "idle"]
    /\ eops = [k \in Callers |-> 0]
    /\ eruns = 0

Init ==
    /\ InitSandbox
    /\ first = NoFirst
    /\ IdleAgent
    /\ IdlePair
    /\ IdleEnv

----------------------------------------------------------------------------
(* The result dicts, one per place that builds one *)

TimeoutText ==
    Text("TimeoutError: Code exceeded second time limit", "", "", timeout)

(* executor.py 123-129 *)
SuccessResult ==
    Result(stdout_capture, NoText, TRUE, None, Ms(elapsed))

(* executor.py 132-138 *)
SyntaxResult(e) ==
    Result(stdout_capture, Text("SyntaxError", "", e.msg, e.lineno), FALSE,
           "syntax", Ms(elapsed))

(* TimeoutResult, reporting the measured time as the other handlers do *)
TimeoutResult_measured ==
    Result(stdout_capture, TimeoutText, FALSE, "timeout", Ms(elapsed))

(* executor.py 140-146 *)
TimeoutResult ==
    Result(stdout_capture, TimeoutText, FALSE, "timeout", Ms(timeout))

(* executor.py 148-154 *)
MemoryResult ==
    Result(stdout_capture,
           Text("MemoryError: Code exceeded MB memory limit", "", "", memory_mb),
           FALSE, "memory", Ms(elapsed))

(* RuntimeResult, letting the internal refinement of a refused import out *)
RuntimeResult_security(e) ==
    Result(stdout_capture, Text("Traceback", e.cls, e.msg, 0), FALSE,
           IF e.cls = "ImportError" THEN "security" ELSE "runtime",
           Ms(elapsed))

(* executor.py 156-164: traceback.format_exc() names the exception *)
RuntimeResult(e) ==
    Result(stdout_capture, Text("Traceback", e.cls, e.msg, 0), FALSE,
           "runtime", Ms(elapsed))

(* executor.py 172-178: str(e) is the message alone *)
OuterResult(e) ==
    Result("", Text("", "", e.msg, 0), FALSE, "runtime", Ms(elapsed))

(* executor.py 204-210 *)
KilledResult ==
    Result("", TimeoutText, FALSE, "timeout", Ms(timeout))

(* NoResultReturned, classed as the other synthesized result is *)
NoResultReturned_timeout ==
    Result("", Text("Execution failed: no result returned", "", "", 0), FALSE,
           "timeout", 0)

(* executor.py 215-221 *)
NoResultReturned ==
    Result("", Text("Execution failed: no result returned", "", "", 0), FALSE,
           "runtime", 0)

(* main.py 57-63 *)
SecurityResult ==
    Result("", Text("SecurityError", "", "is not allowed in the sandbox", 0),
           FALSE, "runtime", 0)

(* main.py 71-77 *)
InternalErrorResult(e) ==
    Result("", Text("InternalError", "", e.msg, 0), FALSE, "runtime", 0)

(* the result the handler at position h puts *)
HandlerResult(h, e) ==
    CASE h = "h_syntax" -> SyntaxResult(e)
      [] h = "h_timeout" -> TimeoutResult
      [] h = "h_memory" -> MemoryResult
      [] OTHER -> RuntimeResult(e)

----------------------------------------------------------------------------
(* The gateway and the supervisor *)

worker == <<wpc, alive, exc>>

(* main.py 51-63: the pre-filter *)
G_Prefilter ==
    /\ spc = "request"
    /\ IF Flagged(code.text)
       THEN /\ ret' = SecurityResult
            /\ spc' = "responded"
       ELSE /\ spc' = "start"
            /\ ret' = ret
    /\ UNCHANGED <<beside, children,
                   inputs, supWait, worker, timers, wctx, queue, hist>>

(* executor.py 192-199: process.start(), then process.join(timeout + 2) *)
S_Start ==
    /\ spc = "start"
    /\ IF platform.canFork
       THEN /\ spc' = "join"
            /\ supWait' = timeout + StartupGrace
            /\ wpc' = "spawned"
            /\ alive' = TRUE
            /\ hist' = [hist EXCEPT !.spawned = TRUE]
            /\ exc' = exc
       ELSE /\ spc' = "raised"
            /\ exc' = ForkError
            /\ UNCHANGED <<supWait, wpc, alive, hist>>
    /\ UNCHANGED <<beside, children, inputs, ret, timers, wctx, queue>>

(* executor.py 199: join returns when the worker's sentinel is closed (the *)
(* worker and the processes that inherited it are gone) or the wait is over *)
S_JoinReturn ==
    /\ spc = "join"
    /\ (~alive /\ children = 0) \/ supWait = 0
    /\ spc' = "check_alive"
    /\ UNCHANGED <<beside, children,
                   inputs, supWait, ret, worker, timers, wctx, queue, hist>>

(* executor.py 201-210: kill, join(2), the synthesized timeout result *)
S_IsAlive ==
    /\ spc = "check_alive"
    /\ IF alive
       THEN /\ alive' = FALSE
            /\ hist' = [hist EXCEPT !.supKilled = TRUE]
            /\ ret' = KilledResult
            /\ spc' = "returned"
       ELSE /\ spc' = "check_empty"
            /\ UNCHANGED <<alive, hist, ret>>
    /\ UNCHANGED <<beside, children,
                   inputs, supWait, wpc, exc, timers, wctx, queue>>

(* executor.py 212, 215-221: empty() polls the pipe for bytes *)
S_Empty ==
    /\ spc = "check_empty"
    /\ IF pipe # <<>>
       THEN /\ spc' = "get"
            /\ ret' = ret
       ELSE /\ spc' = "returned"
            /\ ret' = NoResultReturned
    /\ UNCHANGED <<beside, children,
                   inputs, supWait, worker, timers, wctx, queue, hist>>

(* executor.py 213: get() reads until it has one whole message *)
S_Get ==
    /\ spc = "get"
    /\ pipe # <<>>
    /\ pipe' = Tail(pipe)
    /\ IF Head(pipe).last
       THEN /\ ret' = Head(pipe).res
            /\ spc' = "returned"
       ELSE UNCHANGED <<ret, spc>>
    /\ UNCHANGED <<beside, children,
                   inputs, supWait, worker, timers, wctx, buffer, feeder, sent,
                   hist>>

(* main.py 65-77: the gateway relays the result, or turns an exception into one *)
G_Respond ==
    /\ caller = "gateway"
    /\ \/ /\ spc = "returned"
          /\ ret' = ret
       \/ /\ spc = "raised"
          /\ ret' = InternalErrorResult(exc)
    /\ spc' = "responded"
    /\ UNCHANGED <<beside, children,
                   inputs, supWait, worker, timers, wctx, queue, hist>>

----------------------------------------------------------------------------
(* Queue.put in the worker.  The first put starts the queue's feeder       *)
(* thread; RLIMIT_NPROC = 0 forbids a new thread to an unprivileged        *)
(* process, and so does a full address space (no room for its stack).      *)
(* After a failed start one interpreter version leaves the dead thread in  *)
(* place and buffers later puts for nobody, another raises again.  A put   *)
(* cut short by the alarm while it starts the thread leaves the thread     *)
(* running but "detached": the process will not wait for it when it exits. *)

(* executor.py 86: RLIMIT_NPROC = 0 stops fork, and the start of a thread, *)
(* only once it is set and only in a process it binds                      *)
ForkAllowed == rlimits.nproc # 0 \/ platform.privileged

CanStartThread == ForkAllowed /\ ~memExhausted

PutAccepts ==
    \/ feeder \in {"running", "detached"}
    \/ feeder = "none" /\ CanStartThread
    \/ feeder = "failed"

PutRaises ==
    \/ feeder = "none" /\ ~CanStartThread
    \/ feeder = "failed"

DoPut(r) ==
    /\ buffer' = Append(buffer, r)
    /\ feeder' = IF feeder = "none" THEN "running" ELSE feeder
    /\ hist' = [hist EXCEPT
          !.puts = @ + 1,
          !.reported = IF @ = NoResult /\ feeder # "failed" THEN r ELSE @,
          !.putWait = IF hist.reported = NoResult /\ feeder # "failed"
                      THEN supWait ELSE @]
    /\ UNCHANGED <<sent, pipe>>

FailPut ==
    /\ feeder' = "failed"
    /\ UNCHANGED <<buffer, sent, pipe, hist>>

(* the feeder thread writes the head of the buffer to the pipe, unit by unit *)
F_Write ==
    /\ alive
    /\ feeder \in {"running", "detached"}
    /\ buffer # <<>>
    /\ Len(pipe) < PipeCapacity
    /\ LET r == Head(buffer)
           last == sent + 1 = Units(r)
       IN  /\ pipe' = Append(pipe, [res |-> r, last |-> last])
           /\ buffer' = IF last THEN Tail(buffer) ELSE buffer
           /\ sent' = IF last THEN 0 ELSE sent + 1
    /\ hist' = [hist EXCEPT !.written = TRUE]
    /\ UNCHANGED <<beside, children,
                   inputs, supv, worker, timers, wctx, feeder>>

----------------------------------------------------------------------------
(* The worker: _execute_code *)

(* executor.py 73-75: the process has started and takes start_time *)
W_Begin ==
    /\ alive
    /\ wpc = "spawned"
    /\ wpc' = "limits"
    /\ elapsed' = 0
    /\ UNCHANGED <<beside, children,
                   inputs, supv, alive, exc, alarmArmed, alarmRem, cpu, wctx,
                   queue, hist>>

(* executor.py 79-86: the three setrlimit calls; a refusal raises out of the *)
(* outer try                                                                 *)
W_SetLimits ==
    /\ alive
    /\ wpc = "limits"
    /\ IF platform.rlimitOK
       THEN /\ rlimits' = [as |-> memory_mb * MiB,
                           cpu_soft |-> timeout + CpuSoftExtra,
                           cpu_hard |-> timeout + CpuHardExtra,
                           nproc |-> 0]
            /\ wpc' = "arm"
            /\ exc' = exc
       ELSE /\ exc' = LimitError
            /\ wpc' = "outer_except"
            /\ rlimits' = rlimits
    /\ UNCHANGED <<beside, children,
                   inputs, supv, alive, timers, stdout_capture, sys_stdout,
                   memExhausted, queue, hist>>

(* executor.py 89-94 *)
W_Arm ==
    /\ alive
    /\ wpc = "arm"
    /\ alarmArmed' = TRUE
    /\ alarmRem' = timeout
    /\ wpc' = "redirect"
    /\ UNCHANGED <<beside, children,
                   inputs, supv, alive, exc, cpu, elapsed, wctx, queue, hist>>

(* executor.py 97-100 *)
W_Redirect ==
    /\ alive
    /\ wpc = "redirect"
    /\ sys_stdout' = "capture"
    /\ wpc' = "compile"
    /\ UNCHANGED <<beside, children,
                   inputs, supv, alive, exc, timers, stdout_capture, rlimits,
                   memExhausted, queue, hist>>

(* executor.py 104-118: the restricted globals, then compile *)
W_Compile ==
    /\ alive
    /\ wpc = "compile"
    /\ IF code.compiles
       THEN /\ wpc' = "exec"
            /\ UNCHANGED <<exc, hist>>
       ELSE /\ exc' = CompileError
            /\ wpc' = HandlerFor(CompileError)
            /\ hist' = [hist EXCEPT !.compileFailed = TRUE,
                                    !.waitAtEnd = supWait]
    /\ UNCHANGED <<beside, children, inputs, supv, alive, timers, wctx, queue>>

(* executor.py 119: exec starts; the snippet's prints go to the capture, and *)
(* a snippet that forks does so if the limit lets it                         *)
W_Exec ==
    /\ alive
    /\ wpc = "exec"
    /\ wpc' = "running"
    /\ stdout_capture' = code.out
    /\ LET forks == code.ending = "fork_loop" /\ ForkAllowed
       IN  /\ children' = IF forks THEN 1 ELSE 0
           /\ hist' = [hist EXCEPT !.stmtRun = TRUE, !.forked = forks]
    /\ UNCHANGED <<beside,
                   inputs, supv, alive, exc, timers, sys_stdout, rlimits,
                   memExhausted, queue>>

(* executor.py 119, 110-113: the snippet comes to its end *)
W_SnippetEnd ==
    /\ alive
    /\ wpc = "running"
    /\ code.ending # "loop"
    /\ code.ending = "fork_loop" => children = 0
    /\ LET imports == code.ending \in {"import", "import_caught"}
                       \/ ( code.ending = "dunder_import"
                            /\ SafeBuiltin("__import__") = "safe_import" )
           denied == imports /\ ImportDenied(code.module)
           missing ==
               \/ ( code.ending = "dunder_import"
                    /\ SafeBuiltin("__import__") = "missing" )
               \/ ( code.ending = "builtin"
                    /\ SafeBuiltin(code.module[1]) = "missing" )
           e == CASE code.ending = "raise" -> Exc(code.raises, "boo", 0)
                  [] code.ending = "fork_loop" -> SnippetForkError
                  [] code.ending \in {"import", "dunder_import"} /\ denied
                       -> ImportRefused
                  [] missing -> NameNotDefined
                  [] code.ending \in {"alloc", "alloc_hold"} -> AllocError
                  [] OTHER -> NoExc
       IN  /\ exc' = e
           /\ wpc' = IF e = NoExc THEN "put_ok" ELSE HandlerFor(e)
           /\ alive' = (code.ending # "os_exit")
           /\ memExhausted' = (code.ending = "alloc_hold")
           /\ hist' = [hist EXCEPT
                 !.execReturned = (e = NoExc /\ code.ending # "os_exit"),
                 !.raised = e.cls,
                 !.memError = (code.ending \in {"alloc", "alloc_hold"}),
                 !.importDenied = denied,
                 !.loaded = (imports /\ ~denied),
                 !.called = (code.ending = "builtin" /\ ~missing),
                 !.waitAtEnd = supWait]
    /\ UNCHANGED <<beside, children,
                   inputs, supv, timers, stdout_capture, sys_stdout, rlimits,
                   queue>>

(* executor.py 121-129 *)
W_PutOk ==
    /\ alive
    /\ wpc = "put_ok"
    /\ \/ /\ PutAccepts
          /\ DoPut(SuccessResult)
          /\ wpc' = "after_put_ok"
          /\ exc' = exc
       \/ /\ PutRaises
          /\ FailPut
          /\ exc' = ThreadError
          /\ wpc' = HandlerFor(ThreadError)
    /\ UNCHANGED <<beside, children, inputs, supv, alive, timers, wctx>>

(* executor.py 131-164: the except clause that matched puts its result *)
W_Handler ==
    /\ alive
    /\ wpc \in {"h_syntax", "h_timeout", "h_memory", "h_exception"}
    /\ \/ /\ PutAccepts
          /\ DoPut(HandlerResult(wpc, exc))
          /\ wpc' = "after_h"
          /\ exc' = NoExc
       \/ /\ PutRaises
          /\ FailPut
          /\ exc' = ThreadError
          /\ wpc' = "finally"
    /\ UNCHANGED <<beside, children, inputs, supv, alive, timers, wctx>>

(* the end of the try body or of an except clause *)
W_LeaveTry ==
    /\ alive
    /\ wpc \in {"after_put_ok", "after_h"}
    /\ wpc' = "finally"
    /\ UNCHANGED <<beside, children,
                   inputs, supv, alive, exc, timers, wctx, queue, hist>>

(* executor.py 165-169, then 171 or the end of the function *)
W_Finally ==
    /\ alive
    /\ wpc = "finally"
    /\ sys_stdout' = "original"
    /\ alarmArmed' = FALSE
    /\ wpc' = IF IsException(exc) THEN "outer_except" ELSE "exiting"
    /\ UNCHANGED <<beside, children,
                   inputs, supv, alive, exc, alarmRem, cpu, elapsed,
                   stdout_capture, rlimits, memExhausted, queue, hist>>

(* executor.py 171-178 *)
W_OuterPut ==
    /\ alive
    /\ wpc = "outer_except"
    /\ \/ /\ PutAccepts
          /\ DoPut(OuterResult(exc))
          /\ exc' = NoExc
       \/ /\ PutRaises
          /\ FailPut
          /\ exc' = ThreadError
    /\ wpc' = "exiting"
    /\ UNCHANGED <<beside, children, inputs, supv, alive, timers, wctx>>

(* the process exits once the feeder thread has flushed the buffer *)
W_Exit ==
    /\ alive
    /\ wpc = "exiting"
    /\ feeder # "running" \/ buffer = <<>>
    /\ alive' = FALSE
    /\ wpc' = "exited"
    /\ UNCHANGED <<beside, children,
                   inputs, supv, exc, timers, wctx, queue, hist>>

----------------------------------------------------------------------------
(* Signals and time *)

AlarmDue == alarmArmed /\ alarmRem = 0

XcpuDue == rlimits.cpu_soft >= 0 /\ cpu >= rlimits.cpu_soft

(* the places where the worker is at a result_queue.put *)
AtPut == {"put_ok", "h_syntax", "h_timeout", "h_memory", "h_exception"}

(* executor.py 89-90: SIGALRM arrives and timeout_handler raises TimeoutError *)
(* at the statement the worker is at; at a put, that may be inside the put,   *)
(* after it has started the feeder thread and before it has queued the result *)
AlarmFire ==
    /\ alive
    /\ AlarmDue
    /\ wpc \in {"redirect", "compile", "exec", "running", "put_ok",
                "after_put_ok", "h_syntax", "h_timeout", "h_memory",
                "h_exception", "after_h", "finally"}
    /\ alarmArmed' = FALSE
    /\ IF wpc = "running" /\ code.swallows
       THEN /\ hist' = [hist EXCEPT !.alarmFired = TRUE, !.swallowed = TRUE,
                                    !.firedInRun = TRUE]
            /\ UNCHANGED <<wpc, exc>>
       ELSE /\ hist' = [hist EXCEPT !.alarmFired = TRUE,
                                    !.firedInRun = (wpc = "running")]
            /\ exc' = AlarmError
            /\ wpc' = CASE wpc \in {"compile", "exec", "running", "put_ok",
                                    "after_put_ok"} -> HandlerFor(AlarmError)
                        [] wpc \in {"h_syntax", "h_timeout", "h_memory",
                                    "h_exception", "after_h"} -> "finally"
                        [] OTHER -> "outer_except"
    /\ \/ feeder' = feeder
       \/ /\ wpc \in AtPut
          /\ feeder = "none"
          /\ CanStartThread
          /\ feeder' = "detached"
    /\ UNCHANGED <<beside, children,
                   inputs, supv, alive, alarmRem, cpu, elapsed, wctx, buffer,
                   sent, pipe>>

(* executor.py 84: at the soft CPU limit the kernel sends SIGXCPU, which ends *)
(* the process                                                                *)
Xcpu ==
    /\ alive
    /\ XcpuDue
    /\ alive' = FALSE
    /\ hist' = [hist EXCEPT !.xcpuKilled = TRUE]
    /\ UNCHANGED <<beside, children,
                   inputs, supv, wpc, exc, timers, wctx, queue>>

(* the worker is killed from outside (OOM killer, operator) *)
ExternalKill ==
    /\ alive
    /\ alive' = FALSE
    /\ hist' = [hist EXCEPT !.extKilled = TRUE]
    /\ UNCHANGED <<beside, children,
                   inputs, supv, wpc, exc, timers, wctx, queue>>

FlushBlocked ==
    /\ wpc = "exiting"
    /\ feeder = "running"
    /\ buffer # <<>>
    /\ Len(pipe) >= PipeCapacity

(* one second passes: the supervisor is in its wait, and either the worker *)
(* is at a place where it stays, or it is gone and a process it forked     *)
(* keeps the sentinel open                                                  *)
Tick ==
    /\ spc = "join"
    /\ supWait > 0
    /\ \/ /\ alive
          /\ wpc \in {"spawned", "running"} \/ FlushBlocked
          /\ ~AlarmDue
          /\ ~XcpuDue
       \/ /\ ~alive
          /\ children > 0
    /\ supWait' = supWait - 1
    /\ alarmRem' = IF alive /\ alarmArmed THEN alarmRem - 1 ELSE alarmRem
    /\ cpu' = IF alive /\ wpc = "running" /\ code.cpu THEN cpu + 1 ELSE cpu
    /\ elapsed' = IF alive /\ wpc # "spawned" THEN elapsed + 1 ELSE elapsed
    /\ UNCHANGED <<beside, children,
                   inputs, spc, ret, worker, alarmArmed, wctx, queue, hist>>

----------------------------------------------------------------------------

Next ==
    \/ G_Prefilter
    \/ S_Start
    \/ S_JoinReturn
    \/ S_IsAlive
    \/ S_Empty
    \/ S_Get
    \/ G_Respond
    \/ W_Begin
    \/ W_SetLimits
    \/ W_Arm
    \/ W_Redirect
    \/ W_Compile
    \/ W_Exec
    \/ W_SnippetEnd
    \/ W_PutOk
    \/ W_Handler
    \/ W_LeaveTry
    \/ W_Finally
    \/ W_OuterPut
    \/ W_Exit
    \/ F_Write
    \/ AlarmFire
    \/ Xcpu
    \/ ExternalKill
    \/ Tick

Spec == Init /\ [][Next]_vars

----------------------------------------------------------------------------
(* The progress agent: calculate_mastery and get_mastery_level *)

sandbox == <<code, timeout, memory_mb, platform, caller, spc, supWait, ret,
             wpc, alive, exc, alarmArmed, alarmRem, cpu, elapsed,
             stdout_capture, sys_stdout, rlimits, memExhausted,
             buffer, feeder, sent, pipe, hist, children>>

(* the sandbox at rest, with one request never started *)
IdleSandbox ==
    /\ InitSandbox
    /\ code = Snippet(TRUE, "", "return", "", <<>>, FALSE, FALSE,
                      <<"from", "os", "import", "fork">>)
    /\ timeout = MinTimeout
    /\ platform = [privileged |-> TRUE, rlimitOK |-> TRUE, canFork |-> TRUE]
    /\ caller = "direct"

Min(a, b) == IF a < b THEN a ELSE b

Max(a, b) == IF a > b THEN a ELSE b

(* main.py 41-42: min(v * 10, 100) *)
TimesTenCapped(v) ==
    IF v.huge = 1 THEN Num(ScoreCap)
    ELSE IF v.huge = -1 THEN v
    ELSE Num(Min(v.n * 10, ScoreCap))

(* the four ints that are multiplied by a float *)
Operands(a) ==
    << TimesTenCapped(a.exercises_done), a.quiz_score, a.code_quality,
       TimesTenCapped(a.streak) >>

(* float * int raises OverflowError when the int does not convert *)
Overflows(a) == \E i \in 1..4 : Operands(a)[i].huge # 0

(* main.py 44-47: the weighted sum, in tenths *)
Tenths(a) ==
    LET o == Operands(a)
    IN  4 * o[1].n + 3 * o[2].n + 2 * o[3].n + o[4].n

(* int() of a number of tenths: towards zero *)
Trunc(t) == IF t >= 0 THEN t \div 10 ELSE -((-t) \div 10)

(* main.py 43-48: int() of the float sum.  The floats 0.3 and 0.2 are not  *)
(* three and two tenths, so a sum that is a whole number in exact          *)
(* arithmetic may come out a hair nearer to zero, and int() then gives the *)
(* whole number next to it; without those two products the sum is exact.   *)
IntOfSum(a) ==
    LET t == Tenths(a)
        exact == a.quiz_score.n = 0 /\ a.code_quality.n = 0
    IN  IF t % 10 # 0 \/ exact \/ t = 0
        THEN {Trunc(t)}
        ELSE {Trunc(t), IF t > 0 THEN Trunc(t) - 1 ELSE Trunc(t) + 1}

(* main.py 39-49: the values calculate_mastery can return *)
calculate_mastery(a) == { Max(0, Min(ScoreCap, m)) : m \in IntOfSum(a) }

(* get_mastery_level, with the bounds taken as exclusive *)
get_mastery_level_exclusive(m) ==
    IF m < BeginnerMax THEN "beginner"
    ELSE IF m < LearningMax THEN "learning"
    ELSE IF m < ProficientMax THEN "proficient"
    ELSE "mastered"

(* main.py 52-60 *)
get_mastery_level(m) ==
    IF m <= BeginnerMax THEN "beginner"
    ELSE IF m <= LearningMax THEN "learning"
    ELSE IF m <= ProficientMax THEN "proficient"
    ELSE "mastered"

(* schemas.py 30-34 *)
MasteryLevel == {"beginner", "learning", "proficient", "mastered"}

(* a call of calculate_mastery followed by get_mastery_level, as at main.py *)
(* 88-94 and 191-201, or a call of get_mastery_level alone                  *)
InitMastery ==
    /\ IdleSandbox
    /\ first = NoFirst
    /\ IdlePair
    /\ IdleEnv
    /\ mlevel = ""
    /\ \/ /\ mpc = "calc"
          /\ margs \in ArgSets
          /\ mval = 0
       \/ /\ mpc = "level"
          /\ margs = NoArgs
          /\ mval \in -1..MaxMastery

(* main.py 39-49 *)
M_Calculate ==
    /\ mpc = "calc"
    /\ IF Overflows(margs)
       THEN /\ mpc' = "raised"
            /\ mval' = mval
       ELSE /\ mpc' = "calculated"
            /\ mval' \in calculate_mastery(margs)
    /\ UNCHANGED <<sandbox, envs, first, pair, margs, mlevel>>

(* main.py 52-60 *)
M_Level ==
    /\ mpc \in {"calculated", "level"}
    /\ mlevel' = get_mastery_level(mval)
    /\ mpc' = IF mpc = "calculated" THEN "done" ELSE "levelled"
    /\ UNCHANGED <<sandbox, envs, first, pair, margs, mval>>

NextMastery ==
    \/ M_Calculate
    \/ M_Level

SpecMastery == InitMastery /\ [][NextMastery]_vars

----------------------------------------------------------------------------
(* Two calls of execute_sandboxed at the same time: the workers share the  *)
(* file system, and the only file access control is safe_open.             *)

(* executor.py 58: the path starts with the temp directory *)
(* str.startswith("/tmp") compares characters, not path components: the  *)
(* names that begin with the letters t, m, p                              *)
BeginsWithTmp(name) == name \in {"tmp", "tmpx"}

InTmp(path) == BeginsWithTmp(path[1])

(* two workers, each with the opens of its snippet still to run *)
InitPair ==
    /\ IdleSandbox
    /\ first = NoFirst
    /\ IdleAgent
    /\ IdleEnv
    /\ fs = NoFiles
    /\ iprog \in [Callers -> Programs]
    /\ ipc = [k \in Callers |-> 0]
    /\ iout = [k \in Callers |-> {}]

(* the open that the snippet of caller k executes next *)
NextOpen(k) == iprog[k][ipc[k] + 1]

(* the snippet of caller k ends on an exception that it does not catch *)
Abandon(k) == ipc' = [ipc EXCEPT ![k] = Len(iprog[k])]

(* executor.py 58-59: PermissionError outside the temp directory *)
P_Denied(k) ==
    /\ ipc[k] < Len(iprog[k])
    /\ ~InTmp(NextOpen(k).path)
    /\ Abandon(k)
    /\ UNCHANGED <<sandbox, envs, first, mastery, fs, iprog, iout>>

(* executor.py 63: builtins.open of a file that is not there *)
P_Missing(k) ==
    /\ ipc[k] < Len(iprog[k])
    /\ InTmp(NextOpen(k).path)
    /\ NextOpen(k).op = "read"
    /\ fs[Resolve(NextOpen(k).path)] = -1
    /\ Abandon(k)
    /\ UNCHANGED <<sandbox, envs, first, mastery, fs, iprog, iout>>

(* executor.py 63: builtins.open for reading; the snippet prints what it   *)
(* read, and iout[k] keeps whose text that was                             *)
P_Read(k) ==
    /\ ipc[k] < Len(iprog[k])
    /\ InTmp(NextOpen(k).path)
    /\ NextOpen(k).op = "read"
    /\ fs[Resolve(NextOpen(k).path)] # -1
    /\ iout' = [iout EXCEPT ![k] = @ \cup {fs[Resolve(NextOpen(k).path)]}]
    /\ ipc' = [ipc EXCEPT ![k] = @ + 1]
    /\ UNCHANGED <<sandbox, envs, first, mastery, fs, iprog>>

(* executor.py 60-63: builtins.open for writing truncates the file, whoever *)
(* wrote it; iout[k] keeps whose file was replaced                          *)
P_Write(k) ==
    /\ ipc[k] < Len(iprog[k])
    /\ InTmp(NextOpen(k).path)
    /\ NextOpen(k).op = "write"
    /\ fs' = [fs EXCEPT ![Resolve(NextOpen(k).path)] = k]
    /\ iout' = [iout EXCEPT ![k] = @ \cup ({fs[Resolve(NextOpen(k).path)]} \ {-1})]
    /\ ipc' = [ipc EXCEPT ![k] = @ + 1]
    /\ UNCHANGED <<sandbox, envs, first, mastery, iprog>>

NextPair ==
    \E k \in Callers :
        \/ P_Denied(k)
        \/ P_Missing(k)
        \/ P_Read(k)
        \/ P_Write(k)

SpecPair == InitPair /\ [][NextPair]_vars

----------------------------------------------------------------------------
(* The same request made twice, one call after the other, on a host where  *)
(* the limits are accepted and nothing outside the sandbox interferes.     *)

InitTwice ==
    /\ Init
    /\ platform = [privileged |-> TRUE, rlimitOK |-> TRUE, canFork |-> TRUE]

(* the first call is over and its worker is gone: the caller keeps the     *)
(* outcome and makes the call again, with the same arguments               *)
Rerun ==
    /\ first = NoFirst
    /\ spc = IF caller = "gateway" THEN "responded" ELSE "returned"
    /\ ~alive
    /\ first' = [success |-> ret.success, error_type |-> ret.error_type]
    /\ spc' = IF caller = "gateway" THEN "request" ELSE "start"
    /\ supWait' = 0
    /\ ret' = NoResult
    /\ wpc' = "init"
    /\ alive' = FALSE
    /\ exc' = NoExc
    /\ alarmArmed' = FALSE
    /\ alarmRem' = 0
    /\ cpu' = 0
    /\ elapsed' = 0
    /\ stdout_capture' = ""
    /\ sys_stdout' = "original"
    /\ rlimits' = NoLimits
    /\ memExhausted' = FALSE
    /\ buffer' = <<>>
    /\ feeder' = "none"
    /\ sent' = 0
    /\ pipe' = <<>>
    /\ hist' = Hist0
    /\ children' = 0
    /\ UNCHANGED <<inputs, mastery, pair, envs>>

NextTwice ==
    \/ G_Prefilter
    \/ S_Start
    \/ S_JoinReturn
    \/ S_IsAlive
    \/ S_Empty
    \/ S_Get
    \/ G_Respond
    \/ W_Begin
    \/ W_SetLimits
    \/ W_Arm
    \/ W_Redirect
    \/ W_Compile
    \/ W_Exec
    \/ W_SnippetEnd
    \/ W_PutOk
    \/ W_Handler
    \/ W_LeaveTry
    \/ W_Finally
    \/ W_OuterPut
    \/ W_Exit
    \/ F_Write
    \/ AlarmFire
    \/ Xcpu
    \/ Tick
    \/ Rerun

SpecTwice == InitTwice /\ [][NextTwice]_vars

----------------------------------------------------------------------------
(* Executions one after the other and side by side: the environment each   *)
(* snippet starts from.                                                     *)

InitEnv ==
    /\ IdleSandbox
    /\ first = NoFirst
    /\ IdleAgent
    /\ IdlePair
    /\ IdleEnv

(* the objects the worker of caller k works on *)
WorkerHeap(k) == heap[Space(k)]

(* executor.py 194-198: process.start() gives the worker a copy of the     *)
(* supervisor's objects                                                     *)
E_Start(k) ==
    /\ epc[k] = "idle"
    /\ eruns < MaxRuns
    /\ heap' = [heap EXCEPT ![Space(k)] = heap[0]]
    /\ epc' = [epc EXCEPT ![k] = "forked"]
    /\ eruns' = eruns + 1
    /\ UNCHANGED <<sandbox, first, mastery, pair, eops>>

(* executor.py 104-115: safe_globals is built anew from the builtins module *)
E_Create(k) ==
    /\ epc[k] = "forked"
    /\ heap' = [heap EXCEPT ![Space(k)].globals =
                                SafeGlobals(WorkerHeap(k).builtins)]
    /\ epc' = [epc EXCEPT ![k] = "created"]
    /\ UNCHANGED <<sandbox, first, mastery, pair, eops, eruns>>

(* executor.py 119: a statement of the snippet binds a name in its globals *)
(* (rebinding print, defining x, replacing __import__), sets an attribute  *)
(* of the builtins module, or rebinds a policy table of executor.py        *)
E_Snippet(k) ==
    /\ epc[k] \in {"created", "running"}
    /\ eops[k] < MaxEnvOps
    /\ \/ \E n \in EnvNames :
             heap' = [heap EXCEPT ![Space(k)].globals[n] = "snippet"]
       \/ \E n \in EnvNames :
             heap' = [heap EXCEPT ![Space(k)].builtins[n] = "snippet"]
       \/ heap' = [heap EXCEPT ![Space(k)].tables = "snippet"]
    /\ epc' = [epc EXCEPT ![k] = "running"]
    /\ eops' = [eops EXCEPT ![k] = @ + 1]
    /\ UNCHANGED <<sandbox, first, mastery, pair, eruns>>

(* the worker process exits, or is killed *)
E_Exit(k) ==
    /\ epc[k] \in {"created", "running"}
    /\ epc' = [epc EXCEPT ![k] = "idle"]
    /\ eops' = [eops EXCEPT ![k] = 0]
    /\ UNCHANGED <<sandbox, first, mastery, pair, heap, eruns>>

NextEnv ==
    \E k \in Callers :
        \/ E_Start(k)
        \/ E_Create(k)
        \/ E_Snippet(k)
        \/ E_Exit(k)

SpecEnv == InitEnv /\ [][NextEnv]_vars

----------------------------------------------------------------------------
(* Properties *)

(* the caller holds a result *)
Returned == spc \in {"returned", "responded"}

(* the call is over: a result, or an exception out of execute_sandboxed *)
SupervisorDone == spc \in {"returned", "responded", "raised"}

(* a host on which the limits are accepted and do not bind the feeder thread *)
PlainPlatform == platform.privileged /\ platform.rlimitOK

(* the snippet ended, or failed to compile, with some of the supervisor's    *)
(* wait still left                                                           *)
EndedInTime == hist.waitAtEnd > 0

ErrorTypes == {"syntax", "runtime", "timeout", "memory"}

(* C1: every call to execute_sandboxed returns after a bounded wait whatever *)
(* the worker does: in no reachable state is the call unfinished with no     *)
(* step left to take (the supervisor waiting on the worker or on the result  *)
(* queue for something that will never come).                                *)
C1_SupervisorNeverBlocks == SupervisorDone \/ ENABLED Next

(* C2: in every result handed to a caller, by execute_sandboxed or by POST   *)
(* /execute, error_type is null exactly when success is true, a failed       *)
(* result has error_type syntax, runtime, timeout or memory, and 'security'  *)
(* never appears.                                                            *)
C2_ErrorTypeContract ==
    Returned =>
        /\ (ret.error_type = None) <=> ret.success
        /\ ~ret.success => ret.error_type \in ErrorTypes
        /\ ret.error_type # "security"

(* C2's case: a refused import, reported by the worker, has reached the caller *)
C2_RefusedImportReturned ==
    /\ Returned
    /\ hist.importDenied
    /\ ~ret.success
    /\ ret.stderr.name = "ImportError"

(* C3: a result with success = true is returned (neither an outsider nor the *)
(* CPU limit having killed the worker) only if exec returned normally, no    *)
(* timeout fired while the snippet was running and the supervisor did not    *)
(* kill the worker.                                                          *)
C3_SuccessOnlyIfCompleted ==
    (Returned /\ ret.success /\ ~hist.extKilled /\ ~hist.xcpuKilled) =>
        /\ hist.execReturned
        /\ ~hist.firedInRun
        /\ ~hist.supKilled

(* C4: for valid source that writes text T to standard output and ends       *)
(* normally (on a plain platform, in time, the alarm not having fired and    *)
(* nobody having killed the worker from outside), the result has success =   *)
(* true, error_type null and T in stdout.                                    *)
C4_OutputReturned ==
    ( /\ Returned
      /\ PlainPlatform
      /\ hist.execReturned
      /\ EndedInTime
      /\ code.out # ""
      /\ ~hist.alarmFired
      /\ ~hist.extKilled )
    => /\ ret.success
       /\ ret.error_type = None
       /\ ret.stdout = code.out

(* C5: when compile fails, no statement of the snippet is ever executed, and *)
(* (the failure coming within the supervisor's wait and the worker not being *)
(* killed from outside) the result has success = false, error_type syntax,   *)
(* and a stderr with the message and the line.                               *)
C5_CompileFailureReported ==
    /\ hist.compileFailed => ~hist.stmtRun
    /\ (Returned /\ hist.compileFailed /\ EndedInTime /\ ~hist.extKilled)
       => /\ ~ret.success
          /\ ret.error_type = "syntax"
          /\ ret.stderr.tag = "SyntaxError"
          /\ ret.stderr.detail # ""
          /\ ret.stderr.num >= 1

(* C6: an exception the snippet raises and does not catch (other than a      *)
(* MemoryError; on a plain platform, in time, with a short output, the alarm *)
(* not having fired and nobody having killed the worker) gives success =     *)
(* false, error_type runtime and a traceback in stderr that names the        *)
(* exception.                                                                *)
C6_UncaughtIsRuntime ==
    ( /\ Returned
      /\ PlainPlatform
      /\ code.ending = "raise"
      /\ code.raises # "MemoryError"
      /\ hist.raised = code.raises
      /\ EndedInTime
      /\ code.out # "TBIG"
      /\ ~hist.alarmFired
      /\ ~hist.extKilled
      /\ ~hist.supKilled )
    => /\ ~ret.success
       /\ ret.error_type = "runtime"
       /\ ret.stderr.tag = "Traceback"
       /\ ret.stderr.name = code.raises

(* C7: for source that runs an unbounded loop with no output (on a plain     *)
(* platform, the loop having started and nobody having killed the worker     *)
(* from outside), the result has success = false, error_type timeout and     *)
(* execution_time_ms = timeout * 1000.                                       *)
C7_LoopTimesOut ==
    ( /\ Returned
      /\ PlainPlatform
      /\ code.ending = "loop"
      /\ code.out = ""
      /\ hist.stmtRun
      /\ ~hist.extKilled )
    => /\ ~ret.success
       /\ ret.error_type = "timeout"
       /\ ret.execution_time_ms = Ms(timeout)

(* C8: for source whose allocation fails at the memory ceiling (on a plain   *)
(* platform, in time, with a short output, the alarm not having fired and    *)
(* nobody having killed the worker), the result has success = false and      *)
(* error_type memory.                                                        *)
C8_MemoryClassified ==
    ( /\ Returned
      /\ PlainPlatform
      /\ hist.memError
      /\ EndedInTime
      /\ code.out # "TBIG"
      /\ ~hist.alarmFired
      /\ ~hist.extKilled
      /\ ~hist.supKilled )
    => /\ ~ret.success
       /\ ret.error_type = "memory"

(* C9: for source whose import of a denylisted module is refused and not     *)
(* caught (on a plain platform, in time, the alarm not having fired and      *)
(* nobody having killed the worker from outside), the module is not loaded   *)
(* and the result has success = false, error_type runtime and the refusal in *)
(* stderr.                                                                   *)
C9_RefusedImportReported ==
    ( /\ Returned
      /\ PlainPlatform
      /\ code.ending = "import"
      /\ hist.importDenied
      /\ EndedInTime
      /\ ~hist.alarmFired
      /\ ~hist.extKilled )
    => /\ ~hist.loaded
       /\ ~ret.success
       /\ ret.error_type = "runtime"
       /\ ret.stderr.name = "ImportError"

C11_NoExceptionEscapes ==
    /\ spc # "raised"
    /\ Returned => ret.stderr.tag # "InternalError"

(* the submitted text holds one of the gateway's patterns, letter case aside *)
HoldsPattern ==
    \E p \in dangerous : Contains(Lower(code.text), Lower(p))

(* C14: when the code sent to POST /execute holds a pre-filter pattern,     *)
(* letter case aside, no worker process is ever spawned for the request and *)
(* the response is success = false, a SecurityError message, error_type     *)
(* runtime and execution_time_ms 0.                                         *)
C14_PrefilterShortCircuits ==
    (caller = "gateway" /\ HoldsPattern) =>
        /\ ~hist.spawned
        /\ spc \in {"request", "responded"}
        /\ spc = "responded" =>
              /\ ~ret.success
              /\ ret.stderr.tag = "SecurityError"
              /\ ret.error_type = "runtime"
              /\ ret.execution_time_ms = 0

(* C14's case: a text holding a pattern in other letter case was refused *)
C14_OtherCaseRefused ==
    /\ caller = "gateway"
    /\ spc = "responded"
    /\ HoldsPattern
    /\ \A p \in dangerous : ~Contains(code.text, p)
    /\ ret.stderr.tag = "SecurityError"

(* C17: if the worker has reported a result while the supervisor's wait had *)
(* time left (the alarm not having fired, and neither an outsider nor the   *)
(* CPU limit having killed the worker), the result returned is that result, *)
(* unchanged.                                                               *)
C17_ReportedResultRelayed ==
    ( /\ Returned
      /\ hist.reported # NoResult
      /\ hist.putWait > 0
      /\ ~hist.alarmFired
      /\ ~hist.extKilled
      /\ ~hist.xcpuKilled )
    => ret = hist.reported

(* C18: if the supervisor's wait ends with no report and it kills the       *)
(* worker, the result is the synthesized timeout (success = false,          *)
(* error_type timeout, execution_time_ms = timeout * 1000) and no process   *)
(* started for the request is still running: neither the worker nor a       *)
(* process it forked.                                                       *)
C18_DeadlineKillsAll ==
    (Returned /\ hist.supKilled /\ hist.reported = NoResult) =>
        /\ ~ret.success
        /\ ret.error_type = "timeout"
        /\ ret.execution_time_ms = Ms(timeout)
        /\ ~alive
        /\ children = 0

(* C19: if the worker is gone when the supervisor looks (it was not the     *)
(* supervisor that killed it) and nothing was ever written to the result    *)
(* channel, the result is success = false, error_type runtime, with the     *)
(* message that no result was returned.                                     *)
C19_DeadWorkerNoResult ==
    (Returned /\ hist.spawned /\ ~hist.supKilled /\ ~hist.written) =>
        /\ ~ret.success
        /\ ret.error_type = "runtime"
        /\ ret.stderr.tag = "Execution failed: no result returned"

(* C19's case: the worker was killed from outside before it put anything *)
C19_KilledBeforeReport ==
    /\ Returned
    /\ hist.extKilled
    /\ hist.puts = 0
    /\ hist.waitAtEnd # 0
    /\ ret.stderr.tag = "Execution failed: no result returned"

(* C20: the worker puts at most one result on the queue, whenever the alarm *)
(* goes off, and once it has put one it is never again compiling or running *)
(* the snippet.                                                             *)
C20_AtMostOnePut ==
    /\ hist.puts <= 1
    /\ hist.puts >= 1 => wpc \notin {"compile", "exec", "running"}

----------------------------------------------------------------------------
(* C15: calculate_mastery returns, for every combination of integers, an   *)
(* integer from 0 to 100 and never raises; the exercise and the streak     *)
(* contributions saturate: ten or more exercises alone give exactly 40,    *)
(* a streak of ten or more alone gives exactly 10.                         *)
C15_MasteryInRange ==
    /\ mpc # "raised"
    /\ mpc \in {"calculated", "done"} =>
          /\ mval \in 0..ScoreCap
          /\ ( /\ margs.exercises_done.huge = 1 \/ margs.exercises_done.n >= 10
               /\ margs.quiz_score = Num(0)
               /\ margs.code_quality = Num(0)
               /\ margs.streak = Num(0) )
             => mval = (4 * ScoreCap) \div 10
          /\ ( /\ margs.streak.huge = 1 \/ margs.streak.n >= 10
               /\ margs.exercises_done = Num(0)
               /\ margs.quiz_score = Num(0)
               /\ margs.code_quality = Num(0) )
             => mval = ScoreCap \div 10

(* the order of the levels *)
LevelRank(l) ==
    CASE l = "beginner" -> 1
      [] l = "learning" -> 2
      [] l = "proficient" -> 3
      [] l = "mastered" -> 4

(* C16: get_mastery_level maps every mastery value to exactly one level,   *)
(* with inclusive upper boundaries: 0..40 beginner, 41..70 learning,       *)
(* 71..90 proficient, 91..100 mastered; a lower value never gets a higher  *)
(* level.                                                                  *)
C16_LevelPartition ==
    mpc \in {"done", "levelled"} =>
        /\ mlevel \in MasteryLevel
        /\ mval \in 0..BeginnerMax => mlevel = "beginner"
        /\ mval \in (BeginnerMax + 1)..LearningMax => mlevel = "learning"
        /\ mval \in (LearningMax + 1)..ProficientMax => mlevel = "proficient"
        /\ mval \in (ProficientMax + 1)..ScoreCap => mlevel = "mastered"
        /\ \A m \in -1..MaxMastery :
              /\ m <= mval =>
                    LevelRank(get_mastery_level(m)) <= LevelRank(mlevel)
              /\ m >= mval =>
                    LevelRank(get_mastery_level(m)) >= LevelRank(mlevel)

(* C16: a value on a boundary has been given its level *)
C16_BoundaryLevelled ==
    /\ mpc = "levelled"
    /\ mval = LearningMax
    /\ mlevel = "learning"

(* C12: two calls at the same time never see each other's files: what a    *)
(* call reads from, or replaces in, its scratch area was written by that   *)
(* call itself.                                                            *)
C12_Isolation == \A k \in Callers : (iout[k] \cap Callers) \subseteq {k}

(* C13: the same call made twice, with nothing interfering from outside,   *)
(* gives the same success and the same error kind both times, whatever the *)
(* order in which the worker, its alarm and the supervisor run.            *)
C13_Idempotent ==
    (Returned /\ first # NoFirst) =>
        /\ ret.success = first.success
        /\ ret.error_type = first.error_type

(* C21: the worker never exits on its own without having reported a result: *)
(* whenever the worker process is gone and nobody killed it (neither the    *)
(* supervisor, nor the CPU limit, nor an outsider), a result has been put   *)
(* on the queue.                                                            *)
C21_WorkerReportsBeforeExit ==
    ( /\ hist.spawned
      /\ ~alive
      /\ ~hist.extKilled
      /\ ~hist.supKilled
      /\ ~hist.xcpuKilled )
    => hist.reported # NoResult

(* C22: in the worker sys.stdout is redirected to the in-memory buffer      *)
(* while the snippet runs, and it is back on its original target before    *)
(* the worker reports its result: no result is put on the queue while the  *)
(* redirection is still in place, on the success path or on an error path. *)
C22_RestoredBeforeReport ==
    [][ /\ wpc' = "running" => sys_stdout' = "capture"
        /\ hist'.puts > hist.puts => sys_stdout = "original" ]_vars

(* C23: the three resource ceilings are in force before any user code is    *)
(* compiled or run (address space memory_mb MiB, CPU soft timeout + 1 and   *)
(* hard timeout + 2, processes 0), no statement of the snippet runs in a    *)
(* worker without them, and a worker in which they are set never creates a  *)
(* child process.                                                           *)
C23_LimitsBeforeCode ==
    /\ (wpc \in {"compile", "exec", "running"} \/ hist.stmtRun
          \/ hist.compileFailed) =>
          rlimits = [as |-> memory_mb * MiB,
                     cpu_soft |-> timeout + CpuSoftExtra,
                     cpu_hard |-> timeout + CpuHardExtra,
                     nproc |-> 0]
    /\ rlimits.nproc = 0 => (~hist.forked /\ children = 0)

(* C24: on a platform that refuses one of the resource limits the worker    *)
(* goes on with the limits it could set and executes the snippet: its run   *)
(* (nobody having killed it) never ends with the source neither compiled    *)
(* nor run.                                                                 *)
C24_UnsupportedLimitTolerated ==
    ( /\ ~platform.rlimitOK
      /\ wpc \in {"exiting", "exited"}
      /\ ~hist.extKilled
      /\ ~hist.supKilled )
    => (hist.stmtRun \/ hist.compileFailed)

(* C25: the capability layer blocks by itself every operation the gateway's *)
(* pre-filter blocks: for a snippet handed directly to execute_sandboxed,   *)
(* an import of a module the pre-filter names (os, subprocess, socket,      *)
(* shutil), a call of __import__, and a call of eval, exec or compile fail  *)
(* in the worker: the module is never loaded, the builtin never called.     *)
C25_CapabilityLayerBlocks ==
    caller = "direct" =>
        /\ ( /\ code.ending \in {"import", "import_caught"}
             /\ (<<"import">> \o code.module) \in dangerous )
           => ~hist.loaded
        /\ code.ending = "dunder_import" => ~hist.loaded
        /\ ( /\ code.ending = "builtin"
             /\ code.module[1] \in {"eval", "exec", "compile"} )
           => ~hist.called

(* a location inside the scratch directory *)
InScratch(l) == l[1] = "tmp"

(* C26: the open given to the snippet reads and writes only inside the      *)
(* temp directory: a path that denotes a location outside it, a sibling     *)
(* that shares the prefix and a path that leaves through ".." included, is  *)
(* denied: no file outside the directory is ever read (no system text in a  *)
(* worker's output) or written.                                             *)
C26_OnlyScratch ==
    /\ \A l \in Locations : ~InScratch(l) => fs[l] = NoFiles[l]
    /\ \A k \in Callers : 0 \notin iout[k]

(* C27: the restricted environment is built fresh for every execution:     *)
(* whatever earlier or concurrent snippets did to their globals, to the    *)
(* builtins or to the policy tables, a snippet starts from the environment *)
(* built from the untouched builtins, and the supervisor's own builtins    *)
(* and policy tables never change.                                         *)
C27_FreshEnvironment ==
    /\ heap[0].builtins = Builtins0
    /\ heap[0].tables = "original"
    /\ \A k \in Callers :
          epc[k] = "created" =>
              /\ WorkerHeap(k).globals = SafeGlobals(Builtins0)
              /\ WorkerHeap(k).builtins = Builtins0
              /\ WorkerHeap(k).tables = "original"

(* C27: a snippet is about to start after another execution has replaced  *)
(* print in its globals, __import__ in the builtins and a policy table,    *)
(* and has ended                                                           *)
C27_StartsAfterChanges ==
    \E k, j \in Callers :
        /\ k # j
        /\ epc[k] = "created"
        /\ epc[j] = "idle"
        /\ heap[j].globals["print"] = "snippet"
        /\ heap[j].builtins["__import__"] = "snippet"

(* C28: delivery of the worker's result does not depend on its size: a      *)
(* worker flushing a result larger than the pipe's buffer and the           *)
(* supervisor waiting for that worker to exit never block on each other,    *)
(* and such a result, put within the supervisor's wait (the alarm not       *)
(* having fired, nobody else having killed the worker), is the result       *)
(* execute_sandboxed returns.                                               *)
C28_SizeIndependentDelivery ==
    /\ ~(spc = "join" /\ alive /\ FlushBlocked)
    /\ ( /\ Returned
         /\ hist.reported # NoResult
         /\ Units(hist.reported) > PipeCapacity
         /\ hist.putWait > 0
         /\ ~hist.alarmFired
         /\ ~hist.extKilled
         /\ ~hist.xcpuKilled )
       => ret = hist.reported

(* C29: a result with error_type timeout is returned only if the snippet    *)
(* was still running when the worker's alarm went off, or had not finished  *)
(* when the supervisor's wait ended; a snippet that has finished, by        *)
(* raising TimeoutError itself for instance, never gets the timeout         *)
(* classification.                                                          *)
C29_TimeoutOnlyIfOverrun ==
    (Returned /\ ret.error_type = "timeout" /\ hist.stmtRun) =>
        \/ hist.firedInRun
        \/ hist.supKilled /\ wpc = "running"

(* C30: the timeout mechanisms fire in a fixed order, the worker's alarm    *)
(* before the supervisor's kill: the supervisor never kills a worker whose  *)
(* snippet is running and whose alarm has not gone off; and for a snippet   *)
(* that is interrupted by the alarm and does not intercept the TimeoutError *)
(* (nobody outside having killed the worker), the result returned is the    *)
(* worker's timeout result, with the stdout captured so far, not the        *)
(* supervisor's synthesized one.                                            *)
C30_AlarmBeforeDeadline ==
    /\ (hist.supKilled /\ wpc = "running") => hist.alarmFired
    /\ ( /\ Returned
         /\ hist.firedInRun
         /\ ~code.swallows
         /\ ~hist.extKilled )
       => /\ ret.error_type = "timeout"
          /\ ret.stdout = code.out
          /\ ~hist.supKilled

====
